---- MODULE Spec2Model ----
(***************************************************************************)
(* A model of ines-extract.py: main(), copy_part(), get_iNES_info(),      *)
(* parse_iNES_header(), is_file_part_splittable() and the generator       *)
(* read_file_in_chunks().                                                  *)
(*                                                                         *)
(* Byte strings (file contents, the chunks handle.read() returns, what    *)
(* target.write() has written) are kept run-length encoded: a sequence of *)
(* runs <<byte, count>> with every count > 0 and no two neighbouring runs *)
(* of the same byte.  The encoding is canonical, so two byte strings are  *)
(* equal exactly when their encodings are equal, and a 2 MiB region costs *)
(* a handful of runs.  All sizes and offsets are the program's own.       *)
(***************************************************************************)
EXTENDS Integers, Sequences, FiniteSets, TLC

----------------------------------------------------------------------------
(* Program constants *)

(* a buffer of half the size: each half of a 2 MiB part then takes two chunks *)
FILE_BUFFER_HALVED == 2 ^ 19

FILE_BUFFER_MAX_SIZE == 2 ^ 20

SYNTAX_ERROR == 4
READ_WRITE_ERROR == 3
INES_ERROR == 2
PART_ERROR == 1

HEADER_SIZE == 16
TRAINER_SIZE == 512
PRG_BANK_SIZE == 16 * 1024
CHR_BANK_SIZE == 8 * 1024

(* the identifier b"NES\x1a" compared at line 101 *)
INES_ID == <<78, 69, 83, 26>>

(* exit status of the interpreter when an exception other than SystemExit *)
(* leaves main() uncaught *)
UNCAUGHT_STATUS == 1

----------------------------------------------------------------------------
(* Byte strings *)

Min(a, b) == IF a <= b THEN a ELSE b

RECURSIVE Size(_)
Size(b) == IF b = <<>> THEN 0 ELSE b[1][2] + Size(Tail(b))

(* canonical form: no empty run, no two neighbouring runs of one byte *)
RECURSIVE Norm(_)
Norm(b) ==
    IF b = <<>> THEN <<>>
    ELSE IF b[1][2] = 0 THEN Norm(Tail(b))
    ELSE LET r == Norm(Tail(b)) IN
         IF r # <<>> /\ r[1][1] = b[1][1]
         THEN <<(<<b[1][1], b[1][2] + r[1][2]>>)>> \o Tail(r)
         ELSE <<b[1]>> \o r

(* b[k:] *)
RECURSIVE Drop(_, _)
Drop(b, k) ==
    IF k <= 0 \/ b = <<>> THEN b
    ELSE IF b[1][2] <= k THEN Drop(Tail(b), k - b[1][2])
    ELSE <<(<<b[1][1], b[1][2] - k>>)>> \o Tail(b)

(* b[:k] *)
RECURSIVE Take(_, _)
Take(b, k) ==
    IF k <= 0 \/ b = <<>> THEN <<>>
    ELSE IF b[1][2] <= k THEN <<b[1]>> \o Take(Tail(b), k - b[1][2])
    ELSE <<(<<b[1][1], k>>)>>

(* a + b *)
Cat(a, b) == Norm(a \o b)

(* handle.read(n) with the file position at p: short at the end of file *)
Read(data, p, n) == Take(Drop(data, p), n)

(* the bytes of a byte string of known small length, one by one *)
RECURSIVE Bytes(_)
Bytes(b) ==
    IF b = <<>> THEN <<>>
    ELSE IF b[1][2] = 1 THEN <<b[1][1]>> \o Bytes(Tail(b))
    ELSE <<b[1][1]>> \o Bytes(<<(<<b[1][1], b[1][2] - 1>>)>> \o Tail(b))

(* the byte string of a list of bytes *)
RECURSIVE FromBytes(_)
FromBytes(s) ==
    IF s = <<>> THEN <<>> ELSE Norm(<<(<<s[1], 1>>)>> \o FromBytes(Tail(s)))

----------------------------------------------------------------------------
(* parse_iNES_header and get_iNES_info *)

Msg(level, text, args) == [level |-> level, text |-> text, args |-> args]

(* struct.unpack("4s4B8s", header) of a 16 byte header, the flags, the *)
(* warnings in the order they are printed, and the returned dict *)
parse_iNES_header(header) ==
    LET fields == Bytes(header)
        id == SubSeq(fields, 1, 4)
        prgBanks == fields[5]
        chrBanks == fields[6]
        flags6 == fields[7]
        flags7 == fields[8]
        reservedBytes == SubSeq(fields, 9, 16)
        trainer == (flags6 \div 4) % 2
        reservedFlags == flags7 % 16
    IN  [idOk |-> id = INES_ID,
         warnings |->
            (IF prgBanks = 0 THEN <<Msg("warning", "no PRG-ROM", <<>>)>> ELSE <<>>)
            \o (IF reservedFlags # 0
                THEN <<Msg("warning", "reserved bits in header byte 7 are nonzero", <<>>)>>
                ELSE <<>>)
            \o (IF \E i \in 1..8 : reservedBytes[i] # 0
                THEN <<Msg("warning", "reserved bytes in header (8-15) are nonzero",
                           reservedBytes)>>
                ELSE <<>>),
         info |-> [prg |-> prgBanks * PRG_BANK_SIZE,
                   chr |-> chrBanks * CHR_BANK_SIZE,
                   trainer |-> trainer * TRAINER_SIZE]]

NoInfo == [prg |-> -1, chr |-> -1, trainer |-> -1]

(* get_iNES_info with the size test "size < correctSize": a file longer *)
(* than the header declares passes *)
get_iNES_info_longer_passes(data) ==
    LET size == Size(data) IN
    IF size < HEADER_SIZE
    THEN [status |-> INES_ERROR, info |-> NoInfo, pos |-> size,
          out |-> <<Msg("error", "the file is smaller than the iNES header size.", <<>>)>>]
    ELSE
    LET p == parse_iNES_header(Read(data, 0, HEADER_SIZE))
        correctSize == HEADER_SIZE + p.info.trainer + p.info.prg + p.info.chr
    IN  IF ~p.idOk
        THEN [status |-> INES_ERROR, info |-> NoInfo, pos |-> HEADER_SIZE,
              out |-> <<Msg("error", "invalid identifier in header", <<>>)>>]
        ELSE IF size < correctSize
        THEN [status |-> INES_ERROR, info |-> NoInfo, pos |-> HEADER_SIZE,
              out |-> p.warnings \o
                 <<Msg("error", "the file is {:d} bytes; according to the header, it should be {:d} bytes",
                       <<size, correctSize, HEADER_SIZE, p.info.trainer, p.info.prg, p.info.chr>>)>>]
        ELSE [status |-> 0, info |-> p.info, pos |-> HEADER_SIZE, out |-> p.warnings]

(* the outcome of get_iNES_info on a file: what is printed, the sizes, the *)
(* file position it leaves, and the exit status when it calls error() *)
get_iNES_info(data) ==
    LET size == Size(data) IN
    IF size < HEADER_SIZE
    THEN [status |-> INES_ERROR, info |-> NoInfo, pos |-> size,
          out |-> <<Msg("error", "the file is smaller than the iNES header size.", <<>>)>>]
    ELSE
    LET p == parse_iNES_header(Read(data, 0, HEADER_SIZE))
        correctSize == HEADER_SIZE + p.info.trainer + p.info.prg + p.info.chr
    IN  IF ~p.idOk
        THEN [status |-> INES_ERROR, info |-> NoInfo, pos |-> HEADER_SIZE,
              out |-> <<Msg("error", "invalid identifier in header", <<>>)>>]
        ELSE IF size # correctSize
        THEN [status |-> INES_ERROR, info |-> NoInfo, pos |-> HEADER_SIZE,
              out |-> p.warnings \o
                 <<Msg("error", "the file is {:d} bytes; according to the header, it should be {:d} bytes",
                       <<size, correctSize, HEADER_SIZE, p.info.trainer, p.info.prg, p.info.chr>>)>>]
        ELSE [status |-> 0, info |-> p.info, pos |-> HEADER_SIZE, out |-> p.warnings]

----------------------------------------------------------------------------
(* read_file_in_chunks and is_file_part_splittable *)

(* a generator object that has not run yet *)
read_file_in_chunks(start, bytesLeft) ==
    [start |-> start, bytesLeft |-> bytesLeft, chunkSize |-> 0, started |-> FALSE]

(* next() on generator g while the shared handle stands at position p:  *)
(* the first call seeks, a later one resumes after the yield            *)
next_chunk(data, p, g) ==
    LET at == IF g.started THEN p ELSE g.start
        left == IF g.started THEN g.bytesLeft - g.chunkSize ELSE g.bytesLeft
    IN  IF left > 0
        THEN LET chunkSize == Min(left, FILE_BUFFER_MAX_SIZE)
                 chunk == Read(data, at, chunkSize)
             IN  [done |-> FALSE, chunk |-> chunk, pos |-> at + Size(chunk),
                  g |-> [g EXCEPT !.started = TRUE, !.bytesLeft = left,
                                  !.chunkSize = chunkSize]]
        ELSE [done |-> TRUE, chunk |-> <<>>, pos |-> at,
              g |-> [g EXCEPT !.started = TRUE, !.bytesLeft = left, !.chunkSize = 0]]

(* all(chunk1 == chunk2 for (chunk1, chunk2) in zip(g1, g2)): zip asks g1, *)
(* then g2, and stops at the first exhausted one; all stops at a mismatch  *)
RECURSIVE all_zip(_, _, _, _)
all_zip(data, p, g1, g2) ==
    LET r1 == next_chunk(data, p, g1) IN
    IF r1.done THEN [result |-> TRUE, pos |-> r1.pos]
    ELSE LET r2 == next_chunk(data, r1.pos, g2) IN
         IF r2.done THEN [result |-> TRUE, pos |-> r2.pos]
         ELSE IF r1.chunk # r2.chunk THEN [result |-> FALSE, pos |-> r2.pos]
         ELSE all_zip(data, r2.pos, r1.g, r2.g)

(* is_file_part_splittable testing only that the length lies between 2^5 *)
(* and 2^21, not that it is a power of two *)
is_file_part_splittable_any_length(data, p, start, length) ==
    IF length < 2 ^ 5 \/ length > 2 ^ 21
    THEN [result |-> FALSE, pos |-> p]
    ELSE LET halfLength == length \div 2 IN
         all_zip(data, p, read_file_in_chunks(start, halfLength),
                 read_file_in_chunks(start + halfLength, halfLength))

(* is_file_part_splittable with both readers started at start *)
is_file_part_splittable_same_start(data, p, start, length) ==
    IF length \notin {2 ^ exp : exp \in 5..21}
    THEN [result |-> FALSE, pos |-> p]
    ELSE LET halfLength == length \div 2 IN
         all_zip(data, p, read_file_in_chunks(start, halfLength),
                 read_file_in_chunks(start, halfLength))

is_file_part_splittable(data, p, start, length) ==
    IF length \notin {2 ^ exp : exp \in 5..21}
    THEN [result |-> FALSE, pos |-> p]
    ELSE LET halfLength == length \div 2 IN
         all_zip(data, p, read_file_in_chunks(start, halfLength),
                 read_file_in_chunks(start + halfLength, halfLength))

(* the loop written as an if: at most one halving *)
minimalLength_once(data, p, start, length) ==
    LET r == is_file_part_splittable(data, p, start, length) IN
    IF r.result THEN [length |-> length \div 2, pos |-> r.pos]
    ELSE [length |-> length, pos |-> r.pos]

(* while is_file_part_splittable(source, start, length): length //= 2 *)
RECURSIVE minimalLength(_, _, _, _)
minimalLength(data, p, start, length) ==
    LET r == is_file_part_splittable(data, p, start, length) IN
    IF r.result THEN minimalLength(data, r.pos, start, length \div 2)
    ELSE [length |-> length, pos |-> r.pos]

(* every part but the header is split *)
collapsible_trainer_too(part) == part \in {"P", "C", "T"}

(* line 192: the parts whose data is split in half *)
collapsible(part) == part \in {"P", "C"}

(* part_range with a trainer taken to be always there *)
part_range_trainer_always(info, part) ==
    IF part = "H" THEN [start |-> 0, length |-> HEADER_SIZE]
    ELSE IF part = "T" THEN [start |-> HEADER_SIZE, length |-> TRAINER_SIZE]
    ELSE IF part = "P"
    THEN [start |-> HEADER_SIZE + info.trainer, length |-> info.prg]
    ELSE [start |-> HEADER_SIZE + info.trainer + info.prg, length |-> info.chr]

(* part_range with the trainer left out of the PRG-ROM and CHR-ROM offsets *)
part_range_trainer_skipped(info, part) ==
    IF part = "H" THEN [start |-> 0, length |-> HEADER_SIZE]
    ELSE IF part = "T" THEN [start |-> HEADER_SIZE, length |-> info.trainer]
    ELSE IF part = "P"
    THEN [start |-> HEADER_SIZE, length |-> info.prg]
    ELSE [start |-> HEADER_SIZE + info.prg, length |-> info.chr]

(* start and length of a part, lines 173-184 *)
part_range(info, part) ==
    IF part = "H" THEN [start |-> 0, length |-> HEADER_SIZE]
    ELSE IF part = "T" THEN [start |-> HEADER_SIZE, length |-> info.trainer]
    ELSE IF part = "P"
    THEN [start |-> HEADER_SIZE + info.trainer, length |-> info.prg]
    ELSE [start |-> HEADER_SIZE + info.trainer + info.prg, length |-> info.chr]

----------------------------------------------------------------------------
(* The inputs of a run: the command line, the paths, the source file *)

MaxPrgBanks == 3
MaxChrBanks == 2

(* bank counts tried: the small ones, the largest PRG-ROM that can still be *)
(* split (2^21 bytes) and the largest a header byte can hold *)
PrgBankChoices == (0..MaxPrgBanks) \cup {(2 ^ 21) \div PRG_BANK_SIZE, 255}
ChrBankChoices == 0..MaxChrBanks

(* header bytes 6, 7 and one of the reserved bytes 8-15 *)
FlagChoices ==
    {<<0, 0, 0>>, <<4, 0, 0>>, <<251, 16, 0>>, <<5, 1, 0>>, <<0, 0, 7>>}

IdChoices == {INES_ID, <<78, 69, 83, 0>>}

PatternChoices == {"uniform", "halves", "dup2", "lastbyte", "dup4tail"}

SizeChoices == {"exact", "short", "long", "tiny"}

(* a region of n bytes over the two byte values a and b *)
Pattern(n, a, b, kind) ==
    LET q == n \div 4 IN
    IF n = 0 THEN <<>>
    ELSE IF kind = "uniform" THEN <<(<<a, n>>)>>
    ELSE IF kind = "halves" THEN <<(<<a, 2 * q>>), (<<b, 2 * q>>)>>
    ELSE IF kind = "dup2" THEN <<(<<a, q>>), (<<b, q>>), (<<a, q>>), (<<b, q>>)>>
    ELSE IF kind = "lastbyte" THEN <<(<<a, n - 1>>), (<<b, 1>>)>>
    ELSE <<(<<a, q - 1>>), (<<b, 1>>), (<<a, q - 1>>), (<<b, 1>>),
           (<<a, q - 1>>), (<<b, 1>>), (<<a, q - 1>>), (<<b, 1>>)>>

TrainerLen(rom) == ((rom.flags[1] \div 4) % 2) * TRAINER_SIZE
PrgLen(rom) == rom.prgBanks * PRG_BANK_SIZE
ChrLen(rom) == rom.chrBanks * CHR_BANK_SIZE

(* the file a header and a pattern describe, then cut or extended *)
RomFile(rom) ==
    LET header == FromBytes(rom.id \o <<rom.prgBanks, rom.chrBanks, rom.flags[1],
                                        rom.flags[2], 0, 0, 0, rom.flags[3], 0, 0, 0, 0>>)
        full == Norm(header
                     \o Pattern(TrainerLen(rom), 10, 11, rom.pattern)
                     \o Pattern(PrgLen(rom), 20, 21, rom.pattern)
                     \o Pattern(ChrLen(rom), 30, 31, rom.pattern))
    IN  IF rom.size = "exact" THEN full
        ELSE IF rom.size = "short" THEN Take(full, Size(full) - 1)
        ELSE IF rom.size = "long" THEN Cat(full, <<(<<40, 1>>)>>)
        ELSE Take(full, HEADER_SIZE - 1)

Roms ==
    [id : IdChoices, prgBanks : PrgBankChoices, chrBanks : ChrBankChoices,
     flags : FlagChoices, pattern : PatternChoices, size : SizeChoices]

DefaultRom ==
    [id |-> INES_ID, prgBanks |-> 1, chrBanks |-> 1, flags |-> <<4, 0, 0>>,
     pattern |-> "dup2", size |-> "exact"]

Parts == {"P", "C", "H", "T"}
PartArgs == Parts \cup {"p", "c", "h", "t", "X"}

(* runs that reach the copy step: every file, every part *)
CoreEnvs ==
    [argc : {3}, partArg : Parts, srcKind : {"file"}, tgtDir : {""},
     tgtExisted : {FALSE}, rom : Roms]

(* runs that exercise the argument and path checks, on one file *)
CliEnvs ==
    {e \in [argc : 1..5, partArg : PartArgs, srcKind : {"file", "dir", "missing"},
            tgtDir : {"", "ok", "missing"}, tgtExisted : BOOLEAN, rom : {DefaultRom}] :
        /\ (e.argc # 4 => e.tgtDir = "")
        /\ (e.tgtDir = "missing" => ~e.tgtExisted)}

----------------------------------------------------------------------------
(* The state of a run *)

VARIABLES
    env,       \* command line, paths and the rom the source file was made from
    src,       \* the bytes of the source file
    target,    \* the output path: whether it exists, and its bytes
    pc,        \* where main() stands
    part,      \* part.upper()
    handles,   \* the files the with statement holds open
    pos,       \* file position of the source handle
    info,      \* the dict get_iNES_info returned
    start,     \* copy_part's start
    length,    \* copy_part's length
    reader,    \* the generator of the copy loop
    printed,   \* what was printed, in order
    exc,       \* the exceptions raised, in order
    status     \* the exit status, -1 while running

vars == <<env, src, target, pc, part, handles, pos, info, start, length, reader,
          printed, exc, status>>

NoReader == read_file_in_chunks(0, 0)

Init ==
    /\ env \in CoreEnvs \cup CliEnvs
    /\ src = RomFile(env.rom)
    /\ target = [exists |-> env.tgtExisted,
                 data |-> IF env.tgtExisted THEN <<(<<50, 3>>)>> ELSE <<>>]
    /\ pc = "main"
    /\ part = ""
    /\ handles = {}
    /\ pos = 0
    /\ info = NoInfo
    /\ start = 0
    /\ length = 0
    /\ reader = NoReader
    /\ printed = <<>>
    /\ exc = <<>>
    /\ status = -1

----------------------------------------------------------------------------
(* error() and the exceptions *)

(* error(status, text): print, then exit(status); the SystemExit leaves the *)
(* with statement, which closes the files, and ends the process *)
error(st, msgs) ==
    /\ printed' = printed \o msgs
    /\ status' = st
    /\ exc' = Append(exc, "SystemExit")
    /\ handles' = {}
    /\ pc' = "exit"

(* an I/O call raises OSError: the with statement closes what is open and *)
(* control reaches the except clause of main() *)
raise_OSError ==
    /\ exc' = Append(exc, "OSError")
    /\ handles' = {}
    /\ pc' = "except"
    /\ UNCHANGED <<printed, status>>

upper(s) ==
    IF s = "p" THEN "P" ELSE IF s = "c" THEN "C"
    ELSE IF s = "h" THEN "H" ELSE IF s = "t" THEN "T" ELSE s

(* the names main() can resolve at line 232: its locals, the module's *)
(* globals, and the builtins *)
MainLocals == {"source", "part", "target", "base", "targetDir", "sourceHnd", "targetHnd"}
ModuleGlobals ==
    {"os", "struct", "sys", "HELP_TEXT", "FILE_BUFFER_MAX_SIZE",
     "OUTPUT_FILE_EXTENSIONS", "SYNTAX_ERROR", "READ_WRITE_ERROR", "INES_ERROR",
     "PART_ERROR", "HEADER_SIZE", "TRAINER_SIZE", "PRG_BANK_SIZE", "CHR_BANK_SIZE",
     "to_ASCII", "error", "warning", "parse_iNES_header", "get_iNES_info",
     "read_file_in_chunks", "is_file_part_splittable", "copy_part", "main"}
Builtins ==
    {"all", "bool", "exit", "format", "len", "min", "open", "print", "range", "zip",
     "OSError", "NameError"}

----------------------------------------------------------------------------
(* main() *)

(* lines 201-213: parse and validate the arguments *)
ParseArgs ==
    /\ pc = "main"
    /\ IF env.argc = 1
       THEN /\ printed' = Append(printed, Msg("stdout", "HELP_TEXT", <<>>))
            /\ status' = 0
            /\ exc' = Append(exc, "SystemExit")
            /\ pc' = "exit"
            /\ UNCHANGED <<part, handles>>
       ELSE IF env.argc \in 3..4
       THEN /\ part' = upper(env.partArg)
            /\ IF part' \notin {"P", "C", "H", "T"}
               THEN error(SYNTAX_ERROR, <<Msg("error", "invalid part argument", <<>>)>>)
               ELSE /\ pc' = "check"
                    /\ UNCHANGED <<printed, status, exc, handles>>
       ELSE /\ error(SYNTAX_ERROR,
                     <<Msg("error", "syntax error; run without arguments to see help", <<>>)>>)
            /\ UNCHANGED part
    /\ UNCHANGED <<env, src, target, pos, info, start, length, reader>>

(* lines 214-226: the source must be a file, the output must not exist, *)
(* its directory must *)
CheckPaths ==
    /\ pc = "check"
    /\ IF env.srcKind = "dir"
       THEN error(READ_WRITE_ERROR, <<Msg("error", "is a directory", <<>>)>>)
       ELSE IF env.srcKind # "file"
       THEN error(READ_WRITE_ERROR, <<Msg("error", "does not exist", <<>>)>>)
       ELSE IF target.exists
       THEN error(READ_WRITE_ERROR, <<Msg("error", "the output file already exists", <<>>)>>)
       ELSE IF env.tgtDir # "" /\ env.tgtDir # "ok"
       THEN error(READ_WRITE_ERROR,
                  <<Msg("error", "the output directory does not exist", <<>>)>>)
       ELSE /\ pc' = "open_source"
            /\ UNCHANGED <<printed, status, exc, handles>>
    /\ UNCHANGED <<env, src, target, part, pos, info, start, length, reader>>

(* line 229, open(source, "rb") *)
OpenSource ==
    /\ pc = "open_source"
    /\ \/ /\ handles' = {"source"}
          /\ pos' = 0
          /\ pc' = "open_target"
          /\ UNCHANGED <<printed, status, exc>>
       \/ /\ raise_OSError
          /\ UNCHANGED pos
    /\ UNCHANGED <<env, src, target, part, info, start, length, reader>>

(* line 229, open(target, "wb"): creates the file, empty *)
OpenTarget ==
    /\ pc = "open_target"
    /\ \/ /\ target' = [exists |-> TRUE, data |-> <<>>]
          /\ handles' = handles \cup {"target"}
          /\ pc' = "get_info"
          /\ UNCHANGED <<printed, status, exc>>
       \/ /\ raise_OSError
          /\ UNCHANGED target
    /\ UNCHANGED <<env, src, part, pos, info, start, length, reader>>

(* line 171: info = get_iNES_info(source) *)
GetInfo ==
    /\ pc = "get_info"
    /\ \/ LET r == get_iNES_info(src) IN
          /\ pos' = r.pos
          /\ IF r.status # 0
             THEN /\ error(r.status, r.out)
                  /\ UNCHANGED info
             ELSE /\ info' = r.info
                  /\ printed' = printed \o r.out
                  /\ pc' = "select"
                  /\ UNCHANGED <<status, exc, handles>>
       \/ /\ raise_OSError
          /\ UNCHANGED <<pos, info>>
    /\ UNCHANGED <<env, src, target, part, start, length, reader>>

(* lines 173-189: the range of the part; a part of length 0 is not found *)
SelectPart ==
    /\ pc = "select"
    /\ LET r == part_range(info, part) IN
       /\ start' = r.start
       /\ length' = r.length
       /\ IF r.length = 0
          THEN error(PART_ERROR, <<Msg("error", "requested part not found", <<>>)>>)
          ELSE /\ pc' = IF collapsible(part) THEN "split" ELSE "copy"
               /\ UNCHANGED <<printed, status, exc, handles>>
    /\ UNCHANGED <<env, src, target, part, pos, info, reader>>

(* lines 192-194: halve PRG or CHR data as many times as possible; a read *)
(* happens, and can fail, only when the first test reads at all *)
Split ==
    /\ pc = "split"
    /\ \/ LET r == minimalLength(src, pos, start, length) IN
          /\ length' = r.length
          /\ pos' = r.pos
          /\ pc' = "copy"
          /\ UNCHANGED <<printed, status, exc, handles>>
       \/ /\ length \in {2 ^ exp : exp \in 5..21}
          /\ raise_OSError
          /\ UNCHANGED <<length, pos>>
    /\ UNCHANGED <<env, src, target, part, info, start, reader>>

(* lines 196-197: target.seek(0) and the generator of the copy loop *)
CopyBegin ==
    /\ pc = "copy"
    /\ reader' = read_file_in_chunks(start, length)
    /\ pc' = "copy_loop"
    /\ UNCHANGED <<env, src, target, part, handles, pos, info, start, length,
                   printed, exc, status>>

(* lines 197-198: one turn of the copy loop, or its end; a failing read *)
(* writes nothing, a failing write may leave part of the chunk written  *)
CopyChunk ==
    /\ pc = "copy_loop"
    /\ LET r == next_chunk(src, pos, reader) IN
       \/ /\ reader' = r.g
          /\ pos' = r.pos
          /\ IF r.done
             THEN /\ pc' = "close"
                  /\ UNCHANGED target
             ELSE /\ target' = [target EXCEPT !.data = Cat(@, r.chunk)]
                  /\ pc' = "copy_loop"
          /\ UNCHANGED <<printed, status, exc, handles>>
       \/ /\ ~r.done
          /\ raise_OSError
          /\ \E written \in {0, Size(r.chunk) \div 2} :
                target' = [target EXCEPT !.data = Cat(@, Take(r.chunk, written))]
          /\ UNCHANGED <<reader, pos>>
    /\ UNCHANGED <<env, src, part, info, start, length>>

(* the with statement ends, main() returns *)
Close ==
    /\ pc = "close"
    /\ handles' = {}
    /\ status' = 0
    /\ pc' = "exit"
    /\ UNCHANGED <<env, src, target, part, pos, info, start, length, reader,
                   printed, exc>>

(* lines 231-232: the arguments of error() are evaluated first, and the *)
(* name file is looked up *)
ExceptOSError ==
    /\ pc = "except"
    /\ IF "file" \in MainLocals \cup ModuleGlobals \cup Builtins
       THEN /\ error(READ_WRITE_ERROR, <<Msg("error", "read/write error", <<>>)>>)
       ELSE /\ printed' = Append(printed,
                     Msg("traceback", "NameError: name 'file' is not defined", <<>>))
            /\ exc' = Append(exc, "NameError")
            /\ status' = UNCAUGHT_STATUS
            /\ pc' = "exit"
            /\ UNCHANGED handles
    /\ UNCHANGED <<env, src, target, part, pos, info, start, length, reader>>

Next ==
    \/ ParseArgs
    \/ CheckPaths
    \/ OpenSource
    \/ OpenTarget
    \/ GetInfo
    \/ SelectPart
    \/ Split
    \/ CopyBegin
    \/ CopyChunk
    \/ Close
    \/ ExceptOSError

Spec == Init /\ [][Next]_vars

----------------------------------------------------------------------------
(* What the properties below speak of, stated from the inputs of the run *)
(* and the bytes of the files, not from the program's own variables      *)

Raised(e) == \E i \in 1..Len(exc) : exc[i] = e

ErrorText ==
    IF printed # <<>> /\ printed[Len(printed)].level = "error"
    THEN printed[Len(printed)].text ELSE ""

Warned(text) == \E i \in 1..Len(printed) :
    printed[i].level = "warning" /\ printed[i].text = text

InvalidSignature == pc = "exit" /\ ErrorText = "invalid identifier in header"

SizeMismatch ==
    /\ pc = "exit"
    /\ ErrorText \in
         {"the file is smaller than the iNES header size.",
          "the file is {:d} bytes; according to the header, it should be {:d} bytes"}

RegionNotFound == pc = "exit" /\ ErrorText = "requested part not found"

(* bit 2 of header byte 6 *)
TrainerBit(f) == \E hi \in 0..31, lo \in 0..3 : f = 8 * hi + 4 + lo

DeclTrainer == IF TrainerBit(env.rom.flags[1]) THEN 512 ELSE 0
DeclPrg == env.rom.prgBanks * 16384
DeclChr == env.rom.chrBanks * 8192
ExpectedSize == 16 + DeclTrainer + DeclPrg + DeclChr

DeclOffset ==
    IF part = "H" THEN 0
    ELSE IF part = "T" THEN 16
    ELSE IF part = "P" THEN 16 + DeclTrainer
    ELSE 16 + DeclTrainer + DeclPrg

DeclLength ==
    IF part = "H" THEN 16
    ELSE IF part = "T" THEN DeclTrainer
    ELSE IF part = "P" THEN DeclPrg
    ELSE DeclChr

ValidMagic == Take(src, 4) = <<(<<78, 1>>), (<<69, 1>>), (<<83, 1>>), (<<26, 1>>)>>

(* the run got as far as opening both files *)
Opened == target.exists /\ ~env.tgtExisted

(* get_iNES_info has returned or has called error() *)
GetInfoActed == Opened /\ pc # "get_info" /\ ~(Raised("OSError") /\ info = NoInfo)

(* copy_part returned and main() ended with status 0 *)
Extracted == pc = "exit" /\ status = 0 /\ info # NoInfo

IsPow2InRange(n) == \E e \in 5..21 : n = 2 ^ e

SameHalves(s, n) == Read(src, s, n \div 2) = Read(src, s + n \div 2, n \div 2)

(* halve n while the range at s has two identical halves *)
RECURSIVE HalvedWhileIdentical(_, _)
HalvedWhileIdentical(s, n) ==
    IF n >= 2 /\ n % 2 = 0 /\ SameHalves(s, n)
    THEN HalvedWhileIdentical(s, n \div 2) ELSE n

(* halve n while it is a power of two from 2^5 to 2^21 and the range at s *)
(* has two identical halves *)
RECURSIVE HalvedWhileSplittable(_, _)
HalvedWhileSplittable(s, n) ==
    IF IsPow2InRange(n) /\ SameHalves(s, n)
    THEN HalvedWhileSplittable(s, n \div 2) ELSE n

(* 2^j copies of b *)
RECURSIVE Doubled(_, _)
Doubled(b, j) == IF j = 0 THEN b ELSE LET r == Doubled(b, j - 1) IN Cat(r, r)

(* the n bytes at s repeat with period c *)
Periodic(s, n, c) == Read(src, s, n - c) = Read(src, s + c, n - c)

----------------------------------------------------------------------------
(* C1: a run whose output path did not exist and that ends in            *)
(* InvalidSignature, SizeMismatch or RegionNotFound leaves no output     *)
(* file: it is neither created nor partially written.                    *)
C1_NoOutputOnValidationError ==
    (~env.tgtExisted /\ (InvalidSignature \/ SizeMismatch \/ RegionNotFound))
        => ~target.exists

(* C2: a run in which an I/O call of the copy step raised OSError ends   *)
(* with exit status 3, never 1, 2 or 4.                                  *)
C2_OSErrorExitsWithStatus3 ==
    (pc = "exit" /\ Raised("OSError")) => status = 3

(* C3: with the valid magic, get_iNES_info succeeds exactly when the     *)
(* file size is 16 + trainer + PRG banks * 16384 + CHR banks * 8192, and *)
(* otherwise the run ends with the size error, status 2, nothing copied. *)
C3_LayoutValidation ==
    (GetInfoActed /\ ValidMagic) =>
        IF Size(src) = ExpectedSize
        THEN info = [prg |-> DeclPrg, chr |-> DeclChr, trainer |-> DeclTrainer]
        ELSE info = NoInfo /\ SizeMismatch /\ status = 2 /\ target.data = <<>>

C3_Witness ==
    /\ SizeMismatch /\ ValidMagic
    /\ Size(src) = ExpectedSize - 1
    /\ DeclTrainer = 512 /\ env.rom.flags[1] = 5

(* C4: once validation has passed, the run ends with "requested part not *)
(* found", status 1 and an empty output exactly when the requested part  *)
(* has declared length 0; zero PRG banks only warn, and every other      *)
(* non-empty part is still extracted.                                    *)
C4_RegionNotFoundIffEmpty ==
    (info # NoInfo /\ pc # "select") =>
        /\ RegionNotFound <=> DeclLength = 0
        /\ RegionNotFound => status = 1 /\ target.data = <<>>
        /\ (pc = "exit" /\ DeclLength # 0 /\ ~Raised("OSError")) =>
              /\ status = 0
              /\ Size(target.data) > 0
        /\ DeclPrg = 0 => Warned("no PRG-ROM")

C4_Witness ==
    /\ Extracted /\ DeclPrg = 0 /\ part = "C" /\ Warned("no PRG-ROM")
    /\ Size(target.data) > 0

(* C5 as stated: the output of P or C is the first m bytes at the part's *)
(* offset, m being the declared length halved while the current range    *)
(* has two identical halves.                                             *)
C5_HalvedWhileIdentical ==
    (Extracted /\ part \in {"P", "C"}) =>
        target.data = Read(src, DeclOffset, HalvedWhileIdentical(DeclOffset, DeclLength))

(* C5 as amended: the output of P or C is the first m bytes at the       *)
(* part's offset, m being the declared length halved while the current   *)
(* length is a power of two from 2^5 to 2^21 and the current range has   *)
(* two identical halves.                                                 *)
C5_HalvedWhileSplittable ==
    (Extracted /\ part \in {"P", "C"}) =>
        /\ target.data = Read(src, DeclOffset, HalvedWhileSplittable(DeclOffset, DeclLength))
        /\ Size(target.data) = HalvedWhileSplittable(DeclOffset, DeclLength)

C5_Witness ==
    /\ Extracted /\ part = "P" /\ DeclPrg = 16384 /\ DeclTrainer = 512
    /\ SameHalves(DeclOffset, 16384) /\ ~SameHalves(DeclOffset, 8192)
    /\ target.data = Read(src, 528, 8192)

(* C6: for a length 2^5..2^21 inside the file, is_file_part_splittable   *)
(* is true exactly when the two halves of the range are byte for byte    *)
(* identical, whatever the position of the shared handle.                *)
C6_SplittableIffSameHalves ==
    (pc \in {"split", "copy"} /\ part \in {"P", "C"}) =>
        \A s \in {0, 1, start, start + length \div 2} :
            \A e \in 5..21 :
                s + 2 ^ e <= Size(src) =>
                    (is_file_part_splittable(src, pos, s, 2 ^ e).result
                        <=> SameHalves(s, 2 ^ e))

C6_Witness ==
    /\ pc = "copy" /\ part = "P" /\ DeclPrg = 2 ^ 21 /\ length = 2 ^ 20
    /\ SameHalves(start, 2 ^ 21)

C8_Idempotent ==
    (pc = "copy" /\ part \in {"P", "C"}) =>
        /\ minimalLength(src, pos, start, length).length = length
        /\ \A s \in {0, 16, start + 1}, n \in {48, 2 ^ 9, 2 ^ 13, 2 ^ 14, DeclLength} :
              s + n <= Size(src) =>
                  LET m == minimalLength(src, pos, s, n).length IN
                  minimalLength(src, pos, s, m).length = m

C8_Witness ==
    pc = "copy" /\ part = "C" /\ length * 4 = DeclLength /\ length > 16

(* C9: H yields the first 16 bytes of the source and T the 512 bytes at  *)
(* offsets 16..527, also when the trainer is two identical halves.       *)
C9_HeaderTrainerNotCollapsed ==
    /\ (Extracted /\ part = "H") => target.data = Take(src, 16) /\ Size(target.data) = 16
    /\ (Extracted /\ part = "T") =>
           target.data = Read(src, 16, 512) /\ Size(target.data) = 512

C9_Witness ==
    /\ Extracted /\ part = "T" /\ SameHalves(16, 512) /\ Size(target.data) = 512

(* C10: the output of P or C has length m = n / 2^k, at least 16 when n  *)
(* is a power of two in range; n/m copies of it are the declared region; *)
(* and a region that repeats a chunk of power-of-two length c >= 16 (n a *)
(* power of two <= 2^21) gives at most c bytes.                          *)
C10_CollapseLosesNothing ==
    (Extracted /\ part \in {"P", "C"}) =>
        LET n == DeclLength
            m == Size(target.data)
        IN  /\ \E k \in 0..21 :
                  /\ n = m * 2 ^ k
                  /\ Doubled(target.data, k) = Read(src, DeclOffset, n)
            /\ IsPow2InRange(n) => m >= 16
            /\ \A e \in 4..21 :
                  (IsPow2InRange(n) /\ 2 ^ e <= n /\ Periodic(DeclOffset, n, 2 ^ e))
                      => m <= 2 ^ e

C10_Witness ==
    /\ Extracted /\ part = "P" /\ DeclPrg = 2 ^ 15
    /\ Size(target.data) = 2 ^ 13 /\ Periodic(DeclOffset, 2 ^ 15, 2 ^ 13)
    /\ ~Periodic(DeclOffset, 2 ^ 15, 2 ^ 12)

====
